---------------------------- MODULE Spec2Model ----------------------------
(***************************************************************************)
(* Model of the biathlon data utilities: the time codec of tools.py        *)
(* (time_conversion, time_conversion2) and the URL builders and JSON fetch *)
(* of biathlon_api.py.                                                     *)
(*                                                                         *)
(* A Python str is a sequence of one-character strings, so that split,     *)
(* int() and the f-string formatting are computed character by character.  *)
(* A call's outcome is a record: Return(v) or Raise(exception class, msg). *)
(***************************************************************************)
EXTENDS Integers, Sequences, FiniteSets, TLC

VARIABLES
    fn,    \* the function the run calls first
    arg,   \* its argument (a tuple for two arguments)
    pc,    \* "start", "done" (fn returned or raised), "again" (a second call made)
    ret,   \* outcome of the first call
    env,   \* what the network does during get_json
    ret2   \* outcome of the second call, made on the first call's value

vars == <<fn, arg, pc, ret, env, ret2>>

(***************************************************************************)
(* Outcomes of a call, and Python's exception classes.                     *)
(***************************************************************************)
None == [kind |-> "none"]

Return(v) == [kind |-> "return", value |-> v]

Raise(cls, m) == [kind |-> "raise", exc |-> cls, msg |-> m]

IsReturn(r) == r.kind = "return"

IsRaise(r) == r.kind = "raise"

(***************************************************************************)
(* Characters and the str methods the code uses.                           *)
(***************************************************************************)
Digits == <<"0", "1", "2", "3", "4", "5", "6", "7", "8", "9">>

IsDigit(c) == \E i \in 1..10 : Digits[i] = c

DigitVal(c) == (CHOOSE i \in 1..10 : Digits[i] = c) - 1

\* The ASCII characters str.strip() and int() treat as whitespace.
IsSpace(c) == c \in {" ", "\t", "\n", "\r", "\f"}

\* str.split(sep) for a one-character separator: every occurrence splits,
\* so the empty string gives one empty part.
RECURSIVE SplitFrom(_, _, _)
SplitFrom(s, sep, cur) ==
    IF s = <<>> THEN <<cur>>
    ELSE IF Head(s) = sep THEN <<cur>> \o SplitFrom(Tail(s), sep, <<>>)
    ELSE SplitFrom(Tail(s), sep, Append(cur, Head(s)))

Split(s, sep) == SplitFrom(s, sep, <<>>)

RECURSIVE LStrip(_)
LStrip(s) == IF s # <<>> /\ IsSpace(Head(s)) THEN LStrip(Tail(s)) ELSE s

RECURSIVE RStrip(_)
RStrip(s) ==
    IF s # <<>> /\ IsSpace(s[Len(s)]) THEN RStrip(SubSeq(s, 1, Len(s) - 1)) ELSE s

Strip(s) == LStrip(RStrip(s))

\* The value of a run of digits and underscores, the underscores skipped.
RECURSIVE DigitsValue(_, _)
DigitsValue(s, acc) ==
    IF s = <<>> THEN acc
    ELSE IF Head(s) = "_" THEN DigitsValue(Tail(s), acc)
    ELSE DigitsValue(Tail(s), acc * 10 + DigitVal(Head(s)))

\* Python's int(str): surrounding whitespace is stripped, one leading sign is
\* allowed, then digits with single underscores between them; leading zeros
\* are accepted.  Anything else raises ValueError.
IntLiteralOk(b) ==
    /\ Len(b) > 0
    /\ \A i \in 1..Len(b) : IsDigit(b[i]) \/ b[i] = "_"
    /\ b[1] # "_"
    /\ b[Len(b)] # "_"
    /\ \A i \in 1..(Len(b) - 1) : ~(b[i] = "_" /\ b[i + 1] = "_")

int(s) ==
    LET t      == Strip(s)
        signed == t # <<>> /\ Head(t) \in {"+", "-"}
        b      == IF signed THEN Tail(t) ELSE t
        sign   == IF signed /\ Head(t) = "-" THEN -1 ELSE 1
    IN  IF IntLiteralOk(b)
        THEN Return(sign * DigitsValue(b, 0))
        ELSE Raise("ValueError", "invalid literal for int() with base 10")

\* str(n) for a non-negative integer: decimal, no leading zeros.
RECURSIVE str(_)
str(n) == IF n < 10 THEN <<Digits[n + 1]>> ELSE str(n \div 10) \o <<Digits[(n % 10) + 1]>>

\* The f-string field {n:0Wd} for a non-negative integer: zeros on the left
\* up to width W, never truncated.
RECURSIVE ZeroPad(_, _)
ZeroPad(s, w) == IF Len(s) >= w THEN s ELSE ZeroPad(<<"0">> \o s, w)

FormatZeroPadded(n, w) == ZeroPad(str(n), w)

(***************************************************************************)
(* tools.py                                                                *)
(***************************************************************************)
MsgUniform == "Invalid time format. Use the format '(hours:minutes:)seconds.tenth' with numeric values."

\* A range check that lets minutes = 60 through.
range_checks_minutes_le_60(hours, minutes, seconds, tenth) ==
    IF seconds < 0 \/ seconds >= 60 \/ tenth < 0 \/ tenth >= 10
    THEN Raise("ValueError", "seconds must be between 0 and 59, and tenths between 0 and 9.")
    ELSE IF minutes < 0 \/ minutes > 60
    THEN Raise("ValueError", "minutes must be between 0 and 59.")
    ELSE IF hours < 0
    THEN Raise("ValueError", "hours cannot be negative.")
    ELSE None

\* The three range checks, in the order written; None when all pass.
range_checks(hours, minutes, seconds, tenth) ==
    IF seconds < 0 \/ seconds >= 60 \/ tenth < 0 \/ tenth >= 10
    THEN Raise("ValueError", "seconds must be between 0 and 59, and tenths between 0 and 9.")
    ELSE IF minutes < 0 \/ minutes >= 60
    THEN Raise("ValueError", "minutes must be between 0 and 59.")
    ELSE IF hours < 0
    THEN Raise("ValueError", "hours cannot be negative.")
    ELSE None

\* An hour counted as 3600 tenths.
total_time_in_tenth_hour_3600(hours, minutes, seconds, tenth) ==
    hours * 3600 + minutes * 600 + seconds * 10 + tenth

total_time_in_tenth(hours, minutes, seconds, tenth) ==
    hours * 36000 + minutes * 600 + seconds * 10 + tenth

\* The try block of time_conversion: the statements in order, the first
\* exception ending it.
time_conversion_try(time_str) ==
    LET parts == Split(time_str, ":")
        n     == Len(parts)
        hours   == IF n = 3 THEN int(parts[1]) ELSE Return(0)
        minutes == IF n = 3 THEN int(parts[2])
                   ELSE IF n = 2 THEN int(parts[1]) ELSE Return(0)
    IN  IF n \notin {1, 2, 3} THEN Raise("ValueError", "Invalid time format.")
        ELSE IF IsRaise(hours) THEN hours
        ELSE IF IsRaise(minutes) THEN minutes
        ELSE
        LET st == Split(parts[n], ".")
        IN  IF Len(st) # 2 THEN Raise("ValueError", "unpack: expected 2 values")
            ELSE
            LET seconds == int(st[1])
                tenth   == int(st[2])
            IN  IF IsRaise(seconds) THEN seconds
                ELSE IF IsRaise(tenth) THEN tenth
                ELSE LET bad == range_checks(hours.value, minutes.value,
                                             seconds.value, tenth.value)
                     IN  IF IsRaise(bad) THEN bad
                         ELSE Return(total_time_in_tenth(hours.value, minutes.value,
                                                         seconds.value, tenth.value))

\* time_conversion: the try block, and the handler that replaces every
\* ValueError by one with the uniform message.
time_conversion(time_str) ==
    LET r == time_conversion_try(time_str)
    IN  IF IsRaise(r) /\ r.exc = "ValueError"
        THEN Raise("ValueError", MsgUniform)
        ELSE r

\* The minutes field wrapped at the hour.
time_conversion2_minutes_mod_60(total) ==
    LET minutes == (total \div 600) % 60
        seconds == (total % 600) \div 10
        tenth   == total % 10
    IN  IF minutes > 0
        THEN str(minutes) \o <<":">> \o FormatZeroPadded(seconds, 2)
             \o <<".">> \o str(tenth)
        ELSE str(seconds) \o <<".">> \o str(tenth)

\* The seconds field without its zero padding.
time_conversion2_no_padding(total) ==
    LET minutes == total \div 600
        seconds == (total % 600) \div 10
        tenth   == total % 10
    IN  IF minutes > 0
        THEN str(minutes) \o <<":">> \o str(seconds) \o <<".">> \o str(tenth)
        ELSE str(seconds) \o <<".">> \o str(tenth)

\* The minutes field emitted also when it is 0.
time_conversion2_minutes_always(total) ==
    LET minutes == total \div 600
        seconds == (total % 600) \div 10
        tenth   == total % 10
    IN  IF minutes >= 0
        THEN str(minutes) \o <<":">> \o FormatZeroPadded(seconds, 2)
             \o <<".">> \o str(tenth)
        ELSE str(seconds) \o <<".">> \o str(tenth)

time_conversion2(total) ==
    LET minutes == total \div 600
        seconds == (total % 600) \div 10
        tenth   == total % 10
    IN  IF minutes > 0
        THEN str(minutes) \o <<":">> \o FormatZeroPadded(seconds, 2)
             \o <<".">> \o str(tenth)
        ELSE str(seconds) \o <<".">> \o str(tenth)

(***************************************************************************)
(* biathlon_api.py: the URL builders.                                      *)
(***************************************************************************)
\* "https://www.biathlonresults.com/modules/sportapi/api/AnalyticResults?RaceId="
AnalyticsPrefix ==
    << "h", "t", "t", "p", "s", ":", "/", "/", "w", "w", "w", ".", "b", "i",
       "a", "t", "h", "l", "o", "n", "r", "e", "s", "u", "l", "t", "s", ".",
       "c", "o", "m", "/", "m", "o", "d", "u", "l", "e", "s", "/", "s", "p",
       "o", "r", "t", "a", "p", "i", "/", "a", "p", "i", "/", "A", "n", "a",
       "l", "y", "t", "i", "c", "R", "e", "s", "u", "l", "t", "s", "?", "R",
       "a", "c", "e", "I", "d", "=" >>

\* "&TypeId="
AnalyticsTypeKey ==
    << "&", "T", "y", "p", "e", "I", "d", "=" >>

\* "https://www.biathlonresults.com/modules/sportapi/api/Results?RT=385698&RaceId="
ResultsPrefix ==
    << "h", "t", "t", "p", "s", ":", "/", "/", "w", "w", "w", ".", "b", "i",
       "a", "t", "h", "l", "o", "n", "r", "e", "s", "u", "l", "t", "s", ".",
       "c", "o", "m", "/", "m", "o", "d", "u", "l", "e", "s", "/", "s", "p",
       "o", "r", "t", "a", "p", "i", "/", "a", "p", "i", "/", "R", "e", "s",
       "u", "l", "t", "s", "?", "R", "T", "=", "3", "8", "5", "6", "9", "8",
       "&", "R", "a", "c", "e", "I", "d", "=" >>

\* "https://www.biathlonresults.com/modules/sportapi/api/Events?RT=385698&SeasonId="
CalendarPrefix ==
    << "h", "t", "t", "p", "s", ":", "/", "/", "w", "w", "w", ".", "b", "i",
       "a", "t", "h", "l", "o", "n", "r", "e", "s", "u", "l", "t", "s", ".",
       "c", "o", "m", "/", "m", "o", "d", "u", "l", "e", "s", "/", "s", "p",
       "o", "r", "t", "a", "p", "i", "/", "a", "p", "i", "/", "E", "v", "e",
       "n", "t", "s", "?", "R", "T", "=", "3", "8", "5", "6", "9", "8", "&",
       "S", "e", "a", "s", "o", "n", "I", "d", "=" >>

\* "&Level=-1"
CalendarSuffix ==
    << "&", "L", "e", "v", "e", "l", "=", "-", "1" >>

\* "https://www.biathlonresults.com/modules/sportapi/api/Competitions?RT=385698&EventId="
EventPrefix ==
    << "h", "t", "t", "p", "s", ":", "/", "/", "w", "w", "w", ".", "b", "i",
       "a", "t", "h", "l", "o", "n", "r", "e", "s", "u", "l", "t", "s", ".",
       "c", "o", "m", "/", "m", "o", "d", "u", "l", "e", "s", "/", "s", "p",
       "o", "r", "t", "a", "p", "i", "/", "a", "p", "i", "/", "C", "o", "m",
       "p", "e", "t", "i", "t", "i", "o", "n", "s", "?", "R", "T", "=", "3",
       "8", "5", "6", "9", "8", "&", "E", "v", "e", "n", "t", "I", "d", "=" >>

\* The two identifiers inserted in the other order.
get_url_analytics_swapped(Race_Id, Type_Id) ==
    AnalyticsPrefix \o Type_Id \o AnalyticsTypeKey \o Race_Id

get_url_analytics(Race_Id, Type_Id) ==
    AnalyticsPrefix \o Race_Id \o AnalyticsTypeKey \o Type_Id

get_url_results(Race_Id) == ResultsPrefix \o Race_Id

get_url_calendar(season) == CalendarPrefix \o season \o CalendarSuffix

get_url_event(Event_Id) == EventPrefix \o Event_Id

(***************************************************************************)
(* biathlon_api.py: get_json.  The requests library is outside the         *)
(* repository; its calls are modelled by their documented behaviour.       *)
(***************************************************************************)
\* The classes an exception is an instance of (itself and its bases).
Ancestors(cls) ==
    CASE cls = "RequestException" -> {"RequestException", "OSError"}
      [] cls = "ConnectionError"  -> {"ConnectionError", "RequestException", "OSError"}
      [] cls = "Timeout"          -> {"Timeout", "RequestException", "OSError"}
      [] cls = "TooManyRedirects" -> {"TooManyRedirects", "RequestException", "OSError"}
      [] cls = "MissingSchema"    -> {"MissingSchema", "RequestException", "ValueError", "OSError"}
      [] cls = "HTTPError"        -> {"HTTPError", "RequestException", "OSError"}
      \* requests >= 2.27: class JSONDecodeError(InvalidJSONError, json.JSONDecodeError)
      [] cls = "requests.JSONDecodeError" ->
             {"requests.JSONDecodeError", "InvalidJSONError", "RequestException",
              "OSError", "json.JSONDecodeError", "ValueError"}
      [] cls = "json.JSONDecodeError" -> {"json.JSONDecodeError", "ValueError"}
      [] OTHER -> {cls}

IsInstance(r, cls) == IsRaise(r) /\ cls \in Ancestors(r.exc)

\* requests.get(url): the transport fails, or a response comes back.
requests_get(url, net) ==
    IF net.kind = "failure"
    THEN Raise(net.exc, "transport failure")
    ELSE Return([status_code |-> net.status_code, text |-> net.text])

\* Response.raise_for_status(): HTTPError for 4xx and 5xx, nothing otherwise.
raise_for_status(answer) ==
    IF 400 <= answer.status_code /\ answer.status_code < 600
    THEN Raise("HTTPError", "client or server error")
    ELSE Return(None)

\* A JSON scalar: null, true, false, or an integer without leading zeros.
JsonScalar(t) ==
    IF t = <<"n", "u", "l", "l">> THEN Return([json |-> "null"])
    ELSE IF t = <<"t", "r", "u", "e">> THEN Return([json |-> "bool", v |-> TRUE])
    ELSE IF t = <<"f", "a", "l", "s", "e">> THEN Return([json |-> "bool", v |-> FALSE])
    ELSE IF /\ t # <<>>
            /\ \A i \in 1..Len(t) : IsDigit(t[i])
            /\ (Len(t) > 1 => t[1] # "0")
    THEN Return([json |-> "number", v |-> DigitsValue(t, 0)])
    ELSE Raise("json.JSONDecodeError", "Expecting value")

\* json.loads for the bodies the model sends: scalars, a flat array of
\* scalars, the empty object; whitespace around values is allowed.
JsonLoads(text) ==
    LET t == Strip(text)
    IN  IF t = <<"{", "}">> THEN Return([json |-> "object"])
        ELSE IF Len(t) >= 2 /\ t[1] = "[" /\ t[Len(t)] = "]"
        THEN LET inner == Strip(SubSeq(t, 2, Len(t) - 1))
                 items == Split(inner, ",")
                 vals  == [i \in 1..Len(items) |-> JsonScalar(Strip(items[i]))]
             IN  IF inner = <<>> THEN Return([json |-> "array", v |-> <<>>])
                 ELSE IF \E i \in 1..Len(items) : IsRaise(vals[i])
                 THEN Raise("json.JSONDecodeError", "Expecting value")
                 ELSE Return([json |-> "array",
                              v |-> [i \in 1..Len(items) |-> vals[i].value]])
        ELSE JsonScalar(t)

\* Response.json(): the decoded body; an undecodable body raises
\* requests.exceptions.JSONDecodeError from requests 2.27 on, and the json
\* module's JSONDecodeError (a ValueError only) before.
Response_json(answer, lib) ==
    LET r == JsonLoads(answer.text)
    IN  IF IsRaise(r)
        THEN Raise(IF lib = "requests>=2.27" THEN "requests.JSONDecodeError"
                   ELSE "json.JSONDecodeError", r.msg)
        ELSE r

\* The try block without the raise_for_status() call.
get_json_try_no_status_check(url, net) ==
    LET answer == requests_get(url, net)
    IN  IF IsRaise(answer) THEN answer
        ELSE Response_json(answer.value, net.lib)

\* The try block of get_json: get, raise_for_status, json, in order.
get_json_try(url, net) ==
    LET answer == requests_get(url, net)
    IN  IF IsRaise(answer) THEN answer
        ELSE LET st == raise_for_status(answer.value)
             IN  IF IsRaise(st) THEN st
                 ELSE Response_json(answer.value, net.lib)

\* get_json: the handlers are tried in the order written, RequestException
\* first, ValueError second; the first whose class matches runs.
get_json(url, net) ==
    LET r == get_json_try(url, net)
    IN  IF IsInstance(r, "RequestException")
        THEN Raise("RequestException", "Request error")
        ELSE IF IsInstance(r, "ValueError")
        THEN Raise("ValueError", "The response is not valid JSON.")
        ELSE r

(***************************************************************************)
(* Inputs.                                                                 *)
(***************************************************************************)
\* Texts of an hours or minutes field, of a seconds field, of a tenths field.
HeadTokens ==
    { <<"0">>, <<"1">>, <<"2">>, <<"0", "0">>, <<"0", "2">>, <<"5", "9">>,
      <<"6", "0">>, <<"-", "1">>, <<"+", "5">>, <<" ", "5">>, <<"1", "_", "0">>,
      <<"a">>, <<>> }

SecTokens ==
    { <<"0">>, <<"1">>, <<"5">>, <<"0", "0">>, <<"0", "5">>, <<"3", "3">>,
      <<"5", "9">>, <<"6", "0">>, <<"-", "0">>, <<"+", "5">>, <<"5", " ">>,
      <<"5", "_", "9">>, <<"a", "b", "c">>, <<>> }

TenthTokens ==
    { <<"0">>, <<"1">>, <<"3">>, <<"4">>, <<"9">>, <<"0", "0">>, <<"0", "5">>,
      <<"1", "0">>, <<"2", "3">>, <<"+", "3">>, <<"-", "0">>, <<" ", "3">>,
      <<"a">>, <<>> }

\* Last segments without exactly one '.'.
MalformedLast ==
    { <<"5">>, <<"5", "9">>, <<>>, <<"5", ".", "3", ".", "1">>,
      <<"1", ".", ".", "2">>, <<".">> }

\* Four segments, and a trailing ':'.
ExtraTexts ==
    { <<"1", ":", "2", ":", "3", ":", "4", ".", "5">>,
      <<"0", ":", "0", ":", "0", ":", "0", ".", "0">>, <<":", ":", ":">>,
      <<"1", ":", "0", "2", ":", "3", "3", ".", "4", ":">> }

LastSegments ==
    {s \o <<".">> \o t : s \in SecTokens, t \in TenthTokens} \cup MalformedLast

TimeTexts ==
    LastSegments
    \cup {m \o <<":">> \o l : m \in HeadTokens, l \in LastSegments}
    \cup {h \o <<":">> \o m \o <<":">> \o l :
              h \in HeadTokens, m \in HeadTokens, l \in LastSegments}
    \cup ExtraTexts

\* Largest time, in tenths of a second, of the dense range of format inputs.
MaxTenths == 37600

\* Largest hour count of the sampled format inputs beyond the dense range.
MaxHours == 2

IntInputs ==
    0..MaxTenths
    \cup {h * 36000 + m * 600 + s * 10 + t :
              h \in 0..MaxHours, m \in {0, 2, 59}, s \in {0, 33, 59}, t \in {0, 4, 9}}

\* Identifiers handed to the URL builders.
Ids ==
    { <<"1", "2", "3">>, <<"S", "T", "T", "M">>, <<"2", "4", "2", "5">>,
      <<"a", "&", "b", "=", "c">>, <<" ">>, <<>> }

\* Response bodies.
Bodies ==
    { <<"{", "}">>, <<"[", "1", ",", "2", "]">>, <<"7">>, <<"n", "u", "l", "l">>,
      <<" ", "t", "r", "u", "e", " ">>, <<"[", "]">>, <<>>,
      <<"<", "h", "t", "m", "l", ">">>, <<"[", "1", ",">>, <<"0", "1">> }

StatusCodes == {100, 101, 200, 201, 204, 299, 300, 304, 399, 400, 404, 499, 500, 503, 599, 600}

TransportErrors == {"ConnectionError", "Timeout", "TooManyRedirects", "MissingSchema"}

\* The installed requests library: json() raises a RequestException from
\* 2.27 on, a plain ValueError before.
Libs == {"requests>=2.27", "requests<2.27"}

Networks ==
    {[kind |-> "failure", exc |-> e, status_code |-> 0, text |-> <<>>, lib |-> l] :
         e \in TransportErrors, l \in Libs}
    \cup {[kind |-> "response", exc |-> "", status_code |-> c, text |-> b, lib |-> l] :
              c \in StatusCodes, b \in Bodies, l \in Libs}

NoNetwork == [kind |-> "none", exc |-> "", status_code |-> 0, text |-> <<>>, lib |-> ""]

Builders == {"get_url_analytics", "get_url_results", "get_url_calendar", "get_url_event"}

(***************************************************************************)
(* The state machine: a run picks a function and its argument, calls it,   *)
(* and may hand the value it returned to a second function.                *)
(***************************************************************************)
Init ==
    /\ pc = "start"
    /\ ret = None
    /\ ret2 = None
    /\ env = NoNetwork
    /\ \/ fn = "time_conversion" /\ arg \in TimeTexts
       \/ fn = "time_conversion2" /\ arg \in IntInputs
       \/ fn = "get_url_analytics" /\ arg \in Ids \X Ids
       \/ fn \in {"get_url_results", "get_url_calendar", "get_url_event"} /\ arg \in Ids

Call_time_conversion ==
    /\ pc = "start" /\ fn = "time_conversion"
    /\ ret' = time_conversion(arg)
    /\ pc' = "done"
    /\ UNCHANGED <<fn, arg, env, ret2>>

Call_time_conversion2 ==
    /\ pc = "start" /\ fn = "time_conversion2"
    /\ ret' = Return(time_conversion2(arg))
    /\ pc' = "done"
    /\ UNCHANGED <<fn, arg, env, ret2>>

\* time_conversion2(time_conversion(s))
FormatParsed ==
    /\ pc = "done" /\ fn = "time_conversion" /\ IsReturn(ret)
    /\ ret2' = Return(time_conversion2(ret.value))
    /\ pc' = "again"
    /\ UNCHANGED <<fn, arg, env, ret>>

\* time_conversion(time_conversion2(n))
ParseFormatted ==
    /\ pc = "done" /\ fn = "time_conversion2"
    /\ ret2' = time_conversion(ret.value)
    /\ pc' = "again"
    /\ UNCHANGED <<fn, arg, env, ret>>

Call_get_url_analytics ==
    /\ pc = "start" /\ fn = "get_url_analytics"
    /\ ret' = Return(get_url_analytics(arg[1], arg[2]))
    /\ pc' = "done"
    /\ UNCHANGED <<fn, arg, env, ret2>>

Call_get_url_results ==
    /\ pc = "start" /\ fn = "get_url_results"
    /\ ret' = Return(get_url_results(arg))
    /\ pc' = "done"
    /\ UNCHANGED <<fn, arg, env, ret2>>

Call_get_url_calendar ==
    /\ pc = "start" /\ fn = "get_url_calendar"
    /\ ret' = Return(get_url_calendar(arg))
    /\ pc' = "done"
    /\ UNCHANGED <<fn, arg, env, ret2>>

Call_get_url_event ==
    /\ pc = "start" /\ fn = "get_url_event"
    /\ ret' = Return(get_url_event(arg))
    /\ pc' = "done"
    /\ UNCHANGED <<fn, arg, env, ret2>>

\* get_json on a built URL; the network's behaviour is the environment's choice.
Call_get_json ==
    /\ pc = "done" /\ fn \in Builders
    /\ \E net \in Networks :
           /\ env' = net
           /\ ret2' = get_json(ret.value, net)
    /\ pc' = "again"
    /\ UNCHANGED <<fn, arg, ret>>

Next ==
    \/ Call_time_conversion
    \/ Call_time_conversion2
    \/ FormatParsed
    \/ ParseFormatted
    \/ Call_get_url_analytics
    \/ Call_get_url_results
    \/ Call_get_url_calendar
    \/ Call_get_url_event
    \/ Call_get_json

Spec == Init /\ [][Next]_vars

(***************************************************************************)
(* Vocabulary of the properties: how a time text reads, independently of   *)
(* the order in which time_conversion takes it apart.                      *)
(***************************************************************************)
Count(s, c) == Cardinality({i \in 1..Len(s) : s[i] = c})

AllDigits(s) == s # <<>> /\ \A i \in 1..Len(s) : IsDigit(s[i])

Contains(s, sub) ==
    \E i \in 1..(Len(s) - Len(sub) + 1) : SubSeq(s, i, i + Len(sub) - 1) = sub

Segments(text) == Split(text, ":")

LastSegment(text) == Segments(text)[Len(Segments(text))]

\* The text after the '.' of a last segment that holds exactly one.
TenthsText(text) == Split(LastSegment(text), ".")[2]

SecondsText(text) == Split(LastSegment(text), ".")[1]

\* 1, 2 or 3 segments, the last one 'S.T', every field an integer.
WellFormed(text) ==
    /\ Count(text, ":") \in {0, 1, 2}
    /\ Count(LastSegment(text), ".") = 1
    /\ \A i \in 1..(Len(Segments(text)) - 1) : IsReturn(int(Segments(text)[i]))
    /\ IsReturn(int(SecondsText(text)))
    /\ IsReturn(int(TenthsText(text)))

\* The fields of a well-formed text, missing hours and minutes counted as 0.
HoursOf(text) ==
    IF Len(Segments(text)) = 3 THEN int(Segments(text)[1]).value ELSE 0

MinutesOf(text) ==
    IF Len(Segments(text)) = 1 THEN 0
    ELSE int(Segments(text)[Len(Segments(text)) - 1]).value

SecondsOf(text) == int(SecondsText(text)).value

TenthsOf(text) == int(TenthsText(text)).value

InRange(text) ==
    /\ HoursOf(text) >= 0
    /\ MinutesOf(text) \in 0..59
    /\ SecondsOf(text) \in 0..59
    /\ TenthsOf(text) \in 0..9

Parsed == fn = "time_conversion" /\ pc # "start"

Formatted == fn = "time_conversion2" /\ pc # "start"

\* The canonical, minimal-segment texts: 'S.T', 'M:SS.T' with M >= 1, and
\* 'H:MM:SS.T' with H >= 1; digits only, the first field without leading
\* zeros, the later fields two digits wide, one tenths digit.
Plain(s) == AllDigits(s) /\ (Len(s) > 1 => s[1] # "0")

TwoDigits(s) == AllDigits(s) /\ Len(s) = 2 /\ DigitsValue(s, 0) <= 59

Canonical(text) ==
    LET p == Segments(text)
        n == Len(p)
    IN  /\ n \in {1, 2, 3}
        /\ Count(p[n], ".") = 1
        /\ AllDigits(TenthsText(text)) /\ Len(TenthsText(text)) = 1
        /\ IF n = 1
           THEN Plain(SecondsText(text)) /\ DigitsValue(SecondsText(text), 0) <= 59
           ELSE /\ TwoDigits(SecondsText(text))
                /\ Plain(p[1]) /\ DigitsValue(p[1], 0) >= 1
                /\ (n = 2 => DigitsValue(p[1], 0) <= 59)
                /\ (n = 3 => TwoDigits(p[2]))

(***************************************************************************)
(* C1.  A text with 1, 2 or 3 segments whose last is 'S.T', hours >= 0,    *)
(* minutes, seconds in 0..59 and tenths in 0..9, parses: time_conversion   *)
(* returns hours*36000 + minutes*600 + seconds*10 + tenths, which is >= 0. *)
(***************************************************************************)
C1_ParseValue ==
    (Parsed /\ WellFormed(arg) /\ InRange(arg)) =>
        /\ ret = Return(HoursOf(arg) * 36000 + MinutesOf(arg) * 600
                        + SecondsOf(arg) * 10 + TenthsOf(arg))
        /\ ret.value >= 0

\* C1, reached: "1:02:33.4" parsed to 37534.
C1_Witness ==
    /\ Parsed
    /\ arg = <<"1", ":", "0", "2", ":", "3", "3", ".", "4">>
    /\ WellFormed(arg) /\ InRange(arg)
    /\ ret = Return(37534)

(***************************************************************************)
(* C2.  Every other text fails, always with the same ValueError: a segment *)
(* count outside 1..3, a last segment without exactly one '.', a field     *)
(* that is no integer, a value out of range; the empty text included.      *)
(***************************************************************************)
C2_UniformFailure ==
    (Parsed /\ ~(WellFormed(arg) /\ InRange(arg))) =>
        ret = Raise("ValueError", MsgUniform)

\* C2, reached: the empty text was parsed and refused.
C2_Witness ==
    /\ Parsed
    /\ arg = <<>>
    /\ ~WellFormed(arg)
    /\ ret = Raise("ValueError", MsgUniform)

(***************************************************************************)
(* C3.  As claimed: time_conversion(time_conversion2(n)) = n for every     *)
(* n >= 0, also from 36000 on.                                             *)
(***************************************************************************)
C3_Original == (Formatted /\ pc = "again") => ret2 = Return(arg)

(***************************************************************************)
(* C3, amended.  time_conversion(time_conversion2(n)) = n for every n in   *)
(* 0..35999; from 36000 on the formatted text has a minutes field of 60 or *)
(* more and time_conversion refuses it.                                    *)
(***************************************************************************)
C3_RoundTripBelowHour ==
    (Formatted /\ pc = "again") =>
        IF arg < 36000
        THEN ret2 = Return(arg)
        ELSE ret2 = Raise("ValueError", MsgUniform)

\* C3, reached: 35999 went through both conversions and came back.
C3_Witness ==
    /\ Formatted /\ pc = "again"
    /\ arg = 35999
    /\ ret = Return(<<"5", "9", ":", "5", "9", ".", "9">>)
    /\ ret2 = Return(35999)

(***************************************************************************)
(* C4.  As claimed: time_conversion2(time_conversion(s)) = s for every     *)
(* canonical text s, of one, two or three segments.                        *)
(***************************************************************************)
C4_Original ==
    (Parsed /\ Canonical(arg)) =>
        /\ IsReturn(ret)
        /\ pc = "again" => ret2 = Return(arg)

(***************************************************************************)
(* C4, amended.  time_conversion2(time_conversion(s)) = s for every        *)
(* canonical text of one or two segments; for a canonical 'H:MM:SS.T' the  *)
(* result is the two-segment text with minutes field 60*H + MM, not s.     *)
(***************************************************************************)
C4_RoundTripUpToMinutes ==
    (Parsed /\ Canonical(arg)) =>
        /\ IsReturn(ret)
        /\ pc = "again" =>
               IF Len(Segments(arg)) <= 2
               THEN ret2 = Return(arg)
               ELSE /\ ret2.value # arg
                    /\ ret2.value =
                           str(60 * HoursOf(arg) + MinutesOf(arg))
                           \o <<":">> \o LastSegment(arg)

\* C4, reached: "2:05.1" went through both conversions and came back.
C4_Witness ==
    /\ Parsed /\ pc = "again"
    /\ arg = <<"2", ":", "0", "5", ".", "1">>
    /\ Canonical(arg)
    /\ ret = Return(1251)
    /\ ret2 = Return(arg)

(***************************************************************************)
(* C5.  time_conversion2(n), n >= 0, with minutes = n div 600, seconds =   *)
(* (n mod 600) div 10, tenths = n mod 10: 'minutes:SS.T', seconds two      *)
(* digits wide, when minutes > 0, else 'S.T' unpadded.  Hours are never    *)
(* rebuilt: 37534 gives "62:33.4", 599 gives "59.9", 0 gives "0.0".        *)
(***************************************************************************)
C5_FormatShape ==
    Formatted =>
        LET out  == ret.value
            segs == Split(out, ":")
            last == Split(segs[Len(segs)], ".")
        IN  /\ IsReturn(ret)
            /\ Len(last) = 2
            /\ AllDigits(last[2]) /\ Len(last[2]) = 1
            /\ DigitsValue(last[2], 0) = arg % 10
            /\ AllDigits(last[1])
            /\ DigitsValue(last[1], 0) = (arg % 600) \div 10
            /\ IF arg \div 600 > 0
               THEN /\ Len(segs) = 2
                    /\ Plain(segs[1])
                    /\ DigitsValue(segs[1], 0) = arg \div 600
                    /\ Len(last[1]) = 2
               ELSE /\ Len(segs) = 1
                    /\ Plain(last[1])
            /\ (arg = 37534 => out = <<"6", "2", ":", "3", "3", ".", "4">>)
            /\ (arg = 599 => out = <<"5", "9", ".", "9">>)
            /\ (arg = 0 => out = <<"0", ".", "0">>)

\* C5, reached: 37534 formatted with a minutes field of 62.
C5_Witness ==
    /\ Formatted
    /\ arg = 37534
    /\ ret = Return(<<"6", "2", ":", "3", "3", ".", "4">>)

(***************************************************************************)
(* C6.  As claimed: a response of successful status whose body is not JSON *)
(* makes get_json raise ValueError("The response is not valid JSON."),     *)
(* not RequestException.                                                   *)
(***************************************************************************)
C6_InvalidBodyIsValueError ==
    (/\ fn \in Builders /\ pc = "again"
     /\ env.kind = "response"
     /\ env.status_code \in 200..299
     /\ IsRaise(JsonLoads(env.text))) =>
        ret2 = Raise("ValueError", "The response is not valid JSON.")

ApiBase ==
    << "h", "t", "t", "p", "s", ":", "/", "/", "w", "w", "w", ".", "b", "i",
       "a", "t", "h", "l", "o", "n", "r", "e", "s", "u", "l", "t", "s", ".",
       "c", "o", "m", "/", "m", "o", "d", "u", "l", "e", "s", "/", "s", "p",
       "o", "r", "t", "a", "p", "i", "/", "a", "p", "i", "/" >>

\* "RT=385698"
RT == <<"R", "T", "=", "3", "8", "5", "6", "9", "8">>

TplAnalytics1 == <<"A", "n", "a", "l", "y", "t", "i", "c", "R", "e", "s", "u", "l", "t", "s", "?", "R", "a", "c", "e", "I", "d", "=">>

TplAnalytics2 == <<"&", "T", "y", "p", "e", "I", "d", "=">>

TplResults == <<"R", "e", "s", "u", "l", "t", "s", "?", "R", "T", "=", "3", "8", "5", "6", "9", "8", "&", "R", "a", "c", "e", "I", "d", "=">>

TplCalendar1 == <<"E", "v", "e", "n", "t", "s", "?", "R", "T", "=", "3", "8", "5", "6", "9", "8", "&", "S", "e", "a", "s", "o", "n", "I", "d", "=">>

TplCalendar2 == <<"&", "L", "e", "v", "e", "l", "=", "-", "1">>

TplEvent == <<"C", "o", "m", "p", "e", "t", "i", "t", "i", "o", "n", "s", "?", "R", "T", "=", "3", "8", "5", "6", "9", "8", "&", "E", "v", "e", "n", "t", "I", "d", "=">>

(***************************************************************************)
(* C8.  Each builder returns the fixed host and path followed by its       *)
(* template, the identifiers inserted unmodified and in order; RT=385698   *)
(* is in the results, calendar and event URLs and not in the analytics     *)
(* template.                                                               *)
(***************************************************************************)
C8_UrlTemplates ==
    (fn \in Builders /\ pc # "start") =>
        /\ IsReturn(ret)
        /\ fn = "get_url_analytics" =>
               /\ ret.value = ApiBase \o TplAnalytics1 \o arg[1] \o TplAnalytics2 \o arg[2]
               /\ ~Contains(ret.value, RT)
        /\ fn = "get_url_results" =>
               /\ ret.value = ApiBase \o TplResults \o arg
               /\ Contains(ret.value, RT)
        /\ fn = "get_url_calendar" =>
               /\ ret.value = ApiBase \o TplCalendar1 \o arg \o TplCalendar2
               /\ Contains(ret.value, RT)
        /\ fn = "get_url_event" =>
               /\ ret.value = ApiBase \o TplEvent \o arg
               /\ Contains(ret.value, RT)

\* C8, reached: get_url_analytics("123", "STTM") built its URL.
C8_Witness ==
    /\ fn = "get_url_analytics" /\ pc = "done"
    /\ arg = <<<<"1", "2", "3">>, <<"S", "T", "T", "M">>>>
    /\ ret.value = ApiBase \o <<"A", "n", "a", "l", "y", "t", "i", "c", "R", "e", "s", "u", "l", "t", "s", "?", "R", "a", "c", "e", "I", "d", "=", "1", "2", "3", "&", "T", "y", "p", "e", "I", "d", "=", "S", "T", "T", "M">>

(***************************************************************************)
(* C9.  As claimed: time_conversion refuses every text whose tenths field  *)
(* has more than one digit, "1.05" and "1.00" as well as "1.23".           *)
(***************************************************************************)
C9_MultiDigitTenthsRefused ==
    (/\ Parsed
     /\ Count(LastSegment(arg), ".") = 1
     /\ Cardinality({i \in 1..Len(TenthsText(arg)) : IsDigit(TenthsText(arg)[i])}) > 1) =>
        ret = Raise("ValueError", MsgUniform)

(***************************************************************************)
(* C10.  As claimed: time_conversion returns a value only for texts made   *)
(* of ASCII digits, ':' and '.' alone; a sign, whitespace or an underscore *)
(* in a field makes it fail.                                               *)
(***************************************************************************)
C10_DigitsAndSeparatorsOnly ==
    (Parsed /\ \E i \in 1..Len(arg) : ~IsDigit(arg[i]) /\ arg[i] \notin {":", "."}) =>
        ret = Raise("ValueError", MsgUniform)

=============================================================================
